---- MODULE Spec2Model ----
(***************************************************************************)
(* Name-constraint policy engine configuration (policy/options.go) and the *)
(* constraint normalizers it is built on.                                  *)
(*                                                                         *)
(* A Go string is modelled as a sequence of characters; a character is a   *)
(* one-element TLA+ string, and the two non-ASCII characters the model     *)
(* knows are written by their code points ("U+3002", "U+FF11").            *)
(* Go indices are 0-based: the operators named after Go functions keep     *)
(* Go's numbering (LastIndex returns -1 when absent), At(s, i) reads s[i]. *)
(***************************************************************************)
EXTENDS Integers, Sequences, FiniteSets, TLC

\* ------------------------------------------------------------ characters

LowerLetters == {"a", "b", "c", "d", "e", "f"}
UpperLetters == {"A", "B"}
DigitChars == {"0", "1", "2", "3", "4", "5", "6", "7", "8", "9"}
SpaceChars == {" ", "\t", "\n"}
\* U+3002 IDEOGRAPHIC FULL STOP and U+FF11 FULLWIDTH DIGIT ONE
NonASCIIChars == {"U+3002", "U+FF11"}

\* unicode.ToLower of one character
LowerChar(c) ==
  CASE c = "A" -> "a"
    [] c = "B" -> "b"
    [] OTHER -> c

\* s[i] of Go (0-based); only called where Go would not fault
At(s, i) == s[i + 1]

\* s[i:] of Go
From(s, i) == SubSeq(s, i + 1, Len(s))

\* s[:i] of Go
Upto(s, i) == SubSeq(s, 1, i)

\* strings.ToLower
ToLower(s) == [i \in 1..Len(s) |-> LowerChar(s[i])]

RECURSIVE TrimLeft(_)
TrimLeft(s) ==
  IF Len(s) > 0 /\ s[1] \in SpaceChars THEN TrimLeft(Tail(s)) ELSE s

RECURSIVE TrimRight(_)
TrimRight(s) ==
  IF Len(s) > 0 /\ s[Len(s)] \in SpaceChars
    THEN TrimRight(SubSeq(s, 1, Len(s) - 1))
    ELSE s

\* strings.TrimSpace
TrimSpace(s) == TrimRight(TrimLeft(s))

\* strings.Contains
Contains(s, sub) ==
  \E i \in 1..(Len(s) - Len(sub) + 1) : SubSeq(s, i, i + Len(sub) - 1) = sub

\* strings.HasPrefix
HasPrefix(s, p) == Len(s) >= Len(p) /\ SubSeq(s, 1, Len(p)) = p

\* strings.Count for a one-character separator
Count(s, c) == Cardinality({i \in 1..Len(s) : s[i] = c})

\* strings.Index / strings.LastIndex for a one-character separator
Index(s, c) ==
  IF \E i \in 1..Len(s) : s[i] = c
    THEN (CHOOSE i \in 1..Len(s) : s[i] = c /\ \A j \in 1..(i - 1) : s[j] # c) - 1
    ELSE -1

LastIndex(s, c) ==
  IF \E i \in 1..Len(s) : s[i] = c
    THEN (CHOOSE i \in 1..Len(s) : s[i] = c /\ \A j \in (i + 1)..Len(s) : s[j] # c) - 1
    ELSE -1

\* strings.Split for a one-character separator
RECURSIVE Split(_, _)
Split(s, c) ==
  LET i == Index(s, c)
  IN IF i = -1 THEN <<s>> ELSE <<Upto(s, i)>> \o Split(From(s, i + 1), c)

\* ------------------------------------------------------------ results

\* (value, nil)
Ok(v) == [outcome |-> "ok", value |-> v, raw |-> <<>>, rule |-> "none"]

\* ("", error): the message quotes the raw constraint and states the rule
Err(raw, rule) == [outcome |-> "err", value |-> <<>>, raw |-> raw, rule |-> rule]

\* a run-time panic (index out of range): nothing is returned
Panic(raw) == [outcome |-> "panic", value |-> <<>>, raw |-> raw, rule |-> "index out of range"]

\* ------------------------------------------------------------ idna.Lookup.ToASCII

\* UTS #46 mapping of one character under the Lookup profile (STD3 rules):
\* letters are case-folded, U+3002 maps to ".", U+FF11 maps to "1"
IdnaMapChar(c) ==
  CASE c \in UpperLetters -> LowerChar(c)
    [] c = "U+3002" -> "."
    [] c = "U+FF11" -> "1"
    [] OTHER -> c

\* the characters valid after mapping; every other ASCII character is
\* disallowed by the STD3 rules
IdnaValidChar(c) == c \in LowerLetters \cup DigitChars \cup {".", "-"}

\* CheckHyphens: no label starts or ends with "-" or has "--" in positions 3-4
IdnaHyphensOK(label) ==
  \/ Len(label) = 0
  \/ /\ label[1] # "-"
     /\ label[Len(label)] # "-"
     /\ ~(Len(label) >= 4 /\ label[3] = "-" /\ label[4] = "-")

IdnaToASCII(s) ==
  LET mapped == [i \in 1..Len(s) |-> IdnaMapChar(s[i])]
      labels == Split(mapped, ".")
  IN IF /\ \A i \in 1..Len(mapped) : IdnaValidChar(mapped[i])
        /\ \A k \in 1..Len(labels) : IdnaHyphensOK(labels[k])
       THEN [ok |-> TRUE, value |-> mapped]
       ELSE [ok |-> FALSE, value |-> <<>>]

\* ------------------------------------------------------------ domainToReverseLabels

RECURSIVE ReverseLabels(_)
ReverseLabels(domain) ==
  IF Len(domain) = 0
    THEN <<>>
    ELSE LET i == LastIndex(domain, ".")
         IN IF i = -1
              THEN <<domain>>
              ELSE <<From(domain, i + 1)>> \o ReverseLabels(Upto(domain, i))

\* a byte in 33..126
PrintableChar(c) == c \notin SpaceChars \cup NonASCIIChars

\* the ok result of domainToReverseLabels
domainToReverseLabels(domain) ==
  LET labels == ReverseLabels(domain)
  IN /\ ~(Len(labels) > 0 /\ labels[1] = <<>>)
     /\ \A k \in 1..Len(labels) :
          /\ Len(labels[k]) > 0
          /\ \A i \in 1..Len(labels[k]) : PrintableChar(labels[k][i])

\* ------------------------------------------------------------ DNS normalizer

normalizeAndValidateDNSDomainConstraint(constraint) ==
  LET n0 == ToLower(TrimSpace(constraint))
      n1 == IF HasPrefix(n0, <<"*", ".">>) THEN From(n0, 1) ELSE n0
      ascii == IdnaToASCII(n1)
  IN IF n0 = <<>> THEN Err(constraint, "empty")
     ELSE IF Contains(n0, <<".", ".">>) THEN Err(constraint, "empty label")
     ELSE IF At(n0, 0) = "*" /\ Len(n0) < 2 THEN Panic(constraint)
     ELSE IF At(n0, 0) = "*" /\ At(n0, 1) # "." THEN Err(constraint, "wildcard not a full label")
     ELSE IF LastIndex(n0, "*") > 0 THEN Err(constraint, "wildcard not first")
     ELSE IF ~ascii.ok THEN Err(constraint, "idna")
     ELSE IF ~domainToReverseLabels(ascii.value) THEN Err(constraint, "labels")
     ELSE Ok(ascii.value)

\* ------------------------------------------------------------ parseRFC2821Mailbox

\* atext of RFC 2822 and "."; the backquote, also atext, has no TLA+ literal
AtextChar(c) ==
  c \in LowerLetters \cup UpperLetters \cup DigitChars
        \cup {"!", "#", "$", "%", "&", "'", "*", "+", "-", "/", "=", "?", "^", "_", "{", "|", "}", "~", "."}

\* qtext: any ASCII byte but tab, line feed, the double quote and the backslash
QtextChar(c) == c \notin NonASCIIChars \cup {"\t", "\n", "\"", "\\"}

\* the byte after a backslash inside a quoted string
QuotedPairChar(c) == c \notin NonASCIIChars \cup {"\n"}

MailboxFail == [ok |-> FALSE, local |-> <<>>, rest |-> <<>>]

\* Quoted-string = DQUOTE *qcontent DQUOTE, read after the opening quote
RECURSIVE QuotedString(_, _)
QuotedString(in, acc) ==
  IF Len(in) = 0 THEN MailboxFail
  ELSE LET c == in[1]
           rest == Tail(in)
       IN CASE c = "\"" -> [ok |-> TRUE, local |-> acc, rest |-> rest]
            [] c = "\\" ->
                 IF Len(rest) > 0 /\ QuotedPairChar(rest[1])
                   THEN QuotedString(Tail(rest), Append(acc, rest[1]))
                   ELSE MailboxFail
            [] c \notin {"\"", "\\"} /\ QtextChar(c) -> QuotedString(rest, Append(acc, c))
            [] OTHER -> MailboxFail

\* Atom ("." Atom)*, a backslash taking the next byte whatever it is; an
\* escaped multi-byte character leaves bytes that are no atext and no "@"
RECURSIVE AtomString(_, _)
AtomString(in, acc) ==
  IF Len(in) = 0 THEN [ok |-> TRUE, local |-> acc, rest |-> in]
  ELSE LET c == in[1]
       IN CASE c = "\\" ->
                 IF Len(in) >= 2 /\ in[2] \notin NonASCIIChars
                   THEN AtomString(From(in, 2), Append(acc, in[2]))
                   ELSE MailboxFail
            [] c # "\\" /\ AtextChar(c) -> AtomString(Tail(in), Append(acc, c))
            [] OTHER -> [ok |-> TRUE, local |-> acc, rest |-> in]

\* the local part: [ok, local, rest]
LocalPart(in) ==
  IF in[1] = "\""
    THEN QuotedString(Tail(in), <<>>)
    ELSE LET a == AtomString(in, <<>>)
         IN IF /\ a.ok
               /\ Len(a.local) > 0
               /\ a.local[1] # "."
               /\ a.local[Len(a.local)] # "."
               /\ ~Contains(a.local, <<".", ".">>)
              THEN a
              ELSE MailboxFail

\* parseRFC2821Mailbox: [ok, local, domain]
parseRFC2821Mailbox(in) ==
  IF Len(in) = 0 THEN [ok |-> FALSE, local |-> <<>>, domain |-> <<>>]
  ELSE LET lp == LocalPart(in)
       IN IF /\ lp.ok
             /\ Len(lp.rest) > 0
             /\ lp.rest[1] = "@"
             /\ domainToReverseLabels(Tail(lp.rest))
            THEN [ok |-> TRUE, local |-> lp.local, domain |-> Tail(lp.rest)]
            ELSE [ok |-> FALSE, local |-> <<>>, domain |-> <<>>]

\* ------------------------------------------------------------ email normalizer

normalizeAndValidateEmailConstraint(constraint) ==
  LET n0 == ToLower(TrimSpace(constraint))
      n1 == IF At(n0, 0) = "@" THEN From(n0, 1) ELSE n0
      mailbox == parseRFC2821Mailbox(n1)
      domainASCII == IdnaToASCII(mailbox.domain)
      ascii == IdnaToASCII(n1)
      n2 == IF Contains(n1, <<"@">>)
              THEN mailbox.local \o <<"@">> \o domainASCII.value
              ELSE ascii.value
  IN IF n0 = <<>> THEN Err(constraint, "empty")
     ELSE IF Contains(n0, <<"*">>) THEN Err(constraint, "asterisk")
     ELSE IF Count(n0, "@") > 1 THEN Err(constraint, "too many @")
     ELSE IF n1 = <<>> THEN Panic(constraint)
     ELSE IF At(n1, 0) = "." THEN Err(constraint, "leading period")
     ELSE IF Contains(n1, <<"@">>) /\ ~mailbox.ok THEN Err(constraint, "mailbox")
     ELSE IF Contains(n1, <<"@">>) /\ ~domainASCII.ok THEN Err(constraint, "idna")
     ELSE IF ~Contains(n1, <<"@">>) /\ ~ascii.ok THEN Err(constraint, "idna")
     ELSE IF ~domainToReverseLabels(n2) THEN Err(constraint, "labels")
     ELSE Ok(n2)

\* ------------------------------------------------------------ package net

HexChars == DigitChars \cup LowerLetters \cup {"A", "B"}

HexVal(c) ==
  CASE c = "0" -> 0 [] c = "1" -> 1 [] c = "2" -> 2 [] c = "3" -> 3 [] c = "4" -> 4
    [] c = "5" -> 5 [] c = "6" -> 6 [] c = "7" -> 7 [] c = "8" -> 8 [] c = "9" -> 9
    [] c \in {"a", "A"} -> 10 [] c \in {"b", "B"} -> 11 [] c = "c" -> 12
    [] c = "d" -> 13 [] c = "e" -> 14 [] c = "f" -> 15

\* the value of a run of digits in the given base
RECURSIVE NumVal(_, _)
NumVal(ds, base) ==
  IF Len(ds) = 0 THEN 0
  ELSE NumVal(SubSeq(ds, 1, Len(ds) - 1), base) * base + HexVal(ds[Len(ds)])

\* the length of the leading run of characters of s in set
RECURSIVE RunLen(_, _)
RunLen(s, set) ==
  IF Len(s) > 0 /\ s[1] \in set THEN 1 + RunLen(Tail(s), set) ELSE 0

Zeros(n) == [i \in 1..n |-> 0]

IPFail == [ok |-> FALSE, ip |-> <<>>, is4 |-> FALSE]

\* one decimal field of a dotted quad: 1 to 3 digits, no leading zero, <= 255
IPv4FieldOK(f) ==
  /\ Len(f) \in 1..3
  /\ \A i \in 1..Len(f) : f[i] \in DigitChars
  /\ ~(Len(f) > 1 /\ f[1] = "0")
  /\ NumVal(f, 10) <= 255

\* netip.parseIPv4: [ok, ip (4 bytes)]
parseIPv4(s) ==
  LET fields == Split(s, ".")
  IN IF Len(fields) = 4 /\ \A k \in 1..4 : IPv4FieldOK(fields[k])
       THEN [ok |-> TRUE, ip |-> [k \in 1..4 |-> NumVal(fields[k], 10)], is4 |-> TRUE]
       ELSE IPFail

V6Fail == [ok |-> FALSE, bytes |-> <<>>, ellipsis |-> -1, rest |-> <<>>]

\* the loop of netip.parseIPv6 over the fields: bytes are ip[0:i]
RECURSIVE V6Loop(_, _, _)

\* a trailing dotted quad
V6Embedded(s, bytes, ellipsis) ==
  IF (ellipsis < 0 /\ Len(bytes) # 12) \/ Len(bytes) + 4 > 16 \/ ~parseIPv4(s).ok
    THEN V6Fail
    ELSE [ok |-> TRUE, bytes |-> bytes \o parseIPv4(s).ip, ellipsis |-> ellipsis, rest |-> <<>>]

\* after a 16-bit field was saved: the end, a colon, or the ellipsis
V6AfterField(s, bytes, ellipsis) ==
  IF Len(s) = 0 THEN [ok |-> TRUE, bytes |-> bytes, ellipsis |-> ellipsis, rest |-> <<>>]
  ELSE IF At(s, 0) # ":" \/ Len(s) = 1 THEN V6Fail
  ELSE IF At(s, 1) # ":" THEN V6Loop(From(s, 1), bytes, ellipsis)
  ELSE IF ellipsis >= 0 THEN V6Fail
  ELSE IF Len(s) = 2 THEN [ok |-> TRUE, bytes |-> bytes, ellipsis |-> Len(bytes), rest |-> <<>>]
  ELSE V6Loop(From(s, 2), bytes, Len(bytes))

HexField(f) == <<NumVal(f, 16) \div 256, NumVal(f, 16) % 256>>

V6Loop(s, bytes, ellipsis) ==
  LET off == RunLen(s, HexChars)
  IN IF Len(bytes) >= 16 THEN [ok |-> TRUE, bytes |-> bytes, ellipsis |-> ellipsis, rest |-> s]
     ELSE IF off > 4 \/ off = 0 THEN V6Fail
     ELSE IF off < Len(s) /\ At(s, off) = "." THEN V6Embedded(s, bytes, ellipsis)
     ELSE V6AfterField(From(s, off), bytes \o HexField(Upto(s, off)), ellipsis)

\* the end of netip.parseIPv6: the ellipsis, if any, is expanded to zeros
V6Expand(r) ==
  IF ~r.ok \/ Len(r.rest) # 0 THEN IPFail
  ELSE IF Len(r.bytes) < 16
    THEN IF r.ellipsis < 0 THEN IPFail
         ELSE [ok |-> TRUE,
               ip |-> Upto(r.bytes, r.ellipsis) \o Zeros(16 - Len(r.bytes))
                        \o From(r.bytes, r.ellipsis),
               is4 |-> FALSE]
  ELSE IF r.ellipsis >= 0 THEN IPFail
  ELSE [ok |-> TRUE, ip |-> r.bytes, is4 |-> FALSE]

\* netip.parseIPv6 (no zone): [ok, ip (16 bytes)]
parseIPv6(s) ==
  IF HasPrefix(s, <<":", ":">>)
    THEN IF Len(s) = 2 THEN [ok |-> TRUE, ip |-> Zeros(16), is4 |-> FALSE]
         ELSE V6Expand(V6Loop(From(s, 2), <<>>, 0))
    ELSE V6Expand(V6Loop(s, <<>>, -1))

\* netip.ParseAddr: the first "." or ":" decides the family; "%" is a zone,
\* which net.ParseIP and net.ParseCIDR refuse
ParseAddr(s) ==
  LET marks == {i \in 1..Len(s) : s[i] \in {".", ":", "%"}}
      first == IF marks = {} THEN "none"
               ELSE s[CHOOSE i \in marks : \A j \in marks : i <= j]
  IN CASE first = "." -> parseIPv4(s)
       [] first = ":" -> parseIPv6(s)
       [] OTHER -> IPFail

v4InV6Prefix == Zeros(10) \o <<255, 255>>

\* Addr.As16
As16(a) == IF a.is4 THEN v4InV6Prefix \o a.ip ELSE a.ip

\* net.ParseIP: the 16-byte form, or nil (the empty sequence)
ParseIP(s) ==
  LET a == ParseAddr(s)
  IN IF a.ok THEN As16(a) ELSE <<>>

\* IP.To4: the 4-byte form, or nil (the empty sequence)
To4(ip) ==
  IF Len(ip) = 4 THEN ip
  ELSE IF Len(ip) = 16 /\ Upto(ip, 12) = v4InV6Prefix THEN From(ip, 12)
  ELSE <<>>

\* net.CIDRMask
CIDRMask(ones, bits) ==
  [k \in 1..(bits \div 8) |->
     IF ones >= 8 * k THEN 255
     ELSE IF ones <= 8 * (k - 1) THEN 0
     ELSE 256 - 2 ^ (8 * k - ones)]

\* b & m for a byte m of a CIDR mask (m = 256 - 2^j)
AndByte(b, m) == b - (b % (256 - m))

\* IP.Mask
MaskIP(ip, mask) ==
  LET ip2 == IF Len(mask) = 4 /\ Len(ip) = 16 /\ Upto(ip, 12) = v4InV6Prefix
               THEN From(ip, 12) ELSE ip
  IN IF Len(ip2) # Len(mask) THEN <<>>
     ELSE [k \in 1..Len(ip2) |-> AndByte(ip2[k], mask[k])]

\* net.ParseCIDR: [ok, net], net the *net.IPNet
ParseCIDR(s) ==
  LET i == Index(s, "/")
      a == ParseAddr(Upto(s, i))
      mask == From(s, i + 1)
      bitLen == IF a.is4 THEN 32 ELSE 128
      n == NumVal(mask, 10)
      m == CIDRMask(n, bitLen)
  IN IF /\ i >= 0
        /\ a.ok
        /\ Len(mask) >= 1
        /\ \A j \in 1..Len(mask) : mask[j] \in DigitChars
        /\ n <= bitLen
       THEN [ok |-> TRUE, net |-> [IP |-> MaskIP(As16(a), m), Mask |-> m]]
       ELSE [ok |-> FALSE, net |-> [IP |-> <<>>, Mask |-> <<>>]]

\* net.SplitHostPort succeeds (err == nil)
SplitHostPortOK(hostport) ==
  LET i == LastIndex(hostport, ":")
      end == Index(hostport, "]")
      bracket == At(hostport, 0) = "["
      j == IF bracket THEN 1 ELSE 0
      k == IF bracket THEN end + 1 ELSE 0
  IN /\ i >= 0
     /\ IF bracket
          THEN end >= 0 /\ end + 1 = i
          ELSE ~Contains(Upto(hostport, i), <<":">>)
     /\ ~Contains(From(hostport, j), <<"[">>)
     /\ ~Contains(From(hostport, k), <<"]">>)

\* ------------------------------------------------------------ URI domain normalizer

normalizeAndValidateURIDomainConstraint(constraint) ==
  LET n0 == ToLower(TrimSpace(constraint))
      n1 == IF HasPrefix(n0, <<"*", ".">>) THEN From(n0, 1) ELSE n0
      ascii == IdnaToASCII(n1)
  IN IF n0 = <<>> THEN Err(constraint, "empty")
     ELSE IF Contains(n0, <<".", ".">>) THEN Err(constraint, "empty label")
     ELSE IF Contains(n1, <<"*">>) THEN Err(constraint, "wildcard not first")
     ELSE IF Contains(n1, <<"[">>) \/ Contains(n1, <<"]">>) THEN Err(constraint, "brackets")
     ELSE IF SplitHostPortOK(n1) THEN Err(constraint, "port")
     ELSE IF ParseIP(n1) # <<>> THEN Err(constraint, "ip")
     ELSE IF ~ascii.ok THEN Err(constraint, "idna")
     ELSE IF ~domainToReverseLabels(ascii.value) THEN Err(constraint, "labels")
     ELSE Ok(ascii.value)

\* ------------------------------------------------------------ bounds and inputs

\* options applied to one engine
MaxOptions == 2

\* length of the raw strings the normalizers are run on exhaustively
MaxLen == 4

\* raw DNS domain constraints: two valid ones, an empty label, a bare wildcard
DNSDomains ==
  {<<" ", "A", ".", "b">>, <<"*", ".", "a">>, <<"a", ".", ".", "b">>, <<"*">>}

DNSDomainLists ==
  {<<>>,
   <<<<" ", "A", ".", "b">>, <<"*", ".", "a">>>>,
   <<<<"*", ".", "a">>, <<"a", ".", ".", "b">>>>,
   <<<<"*">>, <<"a", ".", ".", "b">>>>}

\* raw email constraints: a mailbox, a domain, an asterisk, a bare "@"
EmailAddresses ==
  {<<"A", "@", "b">>, <<"@", "a", ".", "b">>, <<"a", "*">>, <<"@">>}

EmailAddressLists ==
  {<<>>,
   <<<<"A", "@", "b">>, <<"@", "a", ".", "b">>>>,
   <<<<"@", "a", ".", "b">>, <<"a", "*">>>>,
   <<<<"@">>, <<"a", "*">>>>}

\* raw URI domain constraints: two valid ones, a port, an IP literal
URIDomains ==
  {<<"A", ".", "b">>, <<"*", ".", "a">>, <<"a", ":", "8", "0">>, <<"1", ".", "1", ".", "1", ".", "1">>}

URIDomainLists ==
  {<<>>,
   <<<<"A", ".", "b">>, <<"*", ".", "a">>>>,
   <<<<"*", ".", "a">>, <<"a", ":", "8", "0">>>>,
   <<<<"1", ".", "1", ".", "1", ".", "1">>>>}

\* 10.1.2.3/8, fe80::1/10 and a bare address, which is no CIDR
CIDRs ==
  {<<"1", "0", ".", "1", ".", "2", ".", "3", "/", "8">>,
   <<"f", "e", "8", "0", ":", ":", "1", "/", "1", "0">>,
   <<"1", ".", "2", ".", "3", ".", "4">>}

CIDRLists ==
  {<<>>,
   <<<<"1", "0", ".", "1", ".", "2", ".", "3", "/", "8">>,
     <<"f", "e", "8", "0", ":", ":", "1", "/", "1", "0">>>>,
   <<<<"f", "e", "8", "0", ":", ":", "1", "/", "1", "0">>, <<"1", ".", "2", ".", "3", ".", "4">>>>}

\* a CIDR, an IPv4 address, an IPv6 address, an IPv4-mapped IPv6 address, a
\* host name
IPOrCIDRLists ==
  {<<<<"1", "0", ".", "1", ".", "2", ".", "3", "/", "8">>, <<"1", ".", "2", ".", "3", ".", "4">>>>,
   <<<<":", ":", "1">>, <<"1", ".", "2", ".", "3", ".", "4">>>>,
   <<<<":", ":", "f", "f", "f", "f", ":", "1", ".", "2", ".", "3", ".", "4">>>>,
   <<<<":", ":", "1">>, <<"a", ".", "b">>>>}

\* net.IP values: 4 bytes, 16 bytes (IPv4-mapped and not), nil, 3 bytes
IPs ==
  {<<1, 2, 3, 4>>,
   v4InV6Prefix \o <<1, 2, 3, 4>>,
   Zeros(15) \o <<1>>,
   <<>>,
   <<1, 2, 3>>}

\* []*net.IPNet values: 10.0.0.0/8 with ::/64, and a list holding a network
\* of 3 address bytes and a nil pointer
NilIPNet == [IP |-> <<>>, Mask |-> <<>>]

IPRangeLists ==
  {<<[IP |-> <<10, 0, 0, 0>>, Mask |-> <<255, 0, 0, 0>>],
     [IP |-> Zeros(16), Mask |-> CIDRMask(64, 128)]>>,
   <<[IP |-> <<1, 2, 3>>, Mask |-> <<255, 255, 255>>], NilIPNet>>}

PrincipalLists ==
  {<<<<"a">>, <<"b">>>>, <<<<" ", "A">>>>}

\* ------------------------------------------------------------ the calls the options make

Elements(lists) == UNION {{l[i] : i \in 1..Len(l)} : l \in lists}

\* normalizeAndValidateDNSDomainConstraint(domain) for the options' arguments
DNSDomainConstraint ==
  [domain \in DNSDomains \cup Elements(DNSDomainLists) |->
     normalizeAndValidateDNSDomainConstraint(domain)]

\* normalizeAndValidateEmailConstraint(email)
EmailConstraint ==
  [email \in EmailAddresses \cup Elements(EmailAddressLists) |->
     normalizeAndValidateEmailConstraint(email)]

\* normalizeAndValidateURIDomainConstraint(domain)
URIDomainConstraint ==
  [domain \in URIDomains \cup Elements(URIDomainLists) |->
     normalizeAndValidateURIDomainConstraint(domain)]

\* net.ParseCIDR(cidr)
CIDRNetwork ==
  [cidr \in CIDRs \cup Elements(CIDRLists) \cup Elements(IPOrCIDRLists) |-> ParseCIDR(cidr)]

\* net.ParseIP(ipOrCIDR)
IPAddress ==
  [ipOrCIDR \in Elements(IPOrCIDRLists) |-> ParseIP(ipOrCIDR)]

\* ------------------------------------------------------------ state

VARIABLES
  engine,      \* the NamePolicyEngine the options are applied to
  applied,     \* number of options applied so far
  prev,        \* the engine as it was before the last option
  lastOp,      \* the last option applied
  lastArg,     \* its argument
  lastErr,     \* what it returned: nil, an error, or a panic
  input,       \* the raw constraint handed to a normalizer
  normalizer,  \* the normalizer it was handed to
  output,      \* what the normalizer returned
  again,       \* what the normalizer returned for its own output
  request,     \* the identifiers last submitted for authorization
  decision,    \* the evaluator's decision on them
  errCall,     \* the last call of package mgmt that built an error
  mgmtErr,     \* the *mgmt.Error built so far
  store,       \* the authority_provisioners table: id -> dbProvisioner
  clock,       \* what clock.Now() returns next
  dbCall       \* the last call on a DB and what it returned

vars ==
  <<engine, applied, prev, lastOp, lastArg, lastErr, input, normalizer, output, again,
    request, decision, errCall, mgmtErr, store, clock, dbCall>>

engineVars == <<engine, applied, prev, lastOp, lastArg, lastErr>>

normVars == <<input, normalizer, output, again>>

evalVars == <<request, decision>>

errVars == <<errCall, mgmtErr>>

dbVars == <<store, clock, dbCall>>

\* no request was evaluated yet
NoRequest == [identifiers |-> <<>>, commonName |-> <<>>]

NoDecision == [verdict |-> "none", reason |-> "none", identifier |-> 0]

\* a nil *mgmt.Error
NilError == [Type |-> "nil", Detail |-> "", Status |-> 0, Err |-> <<>>]

NoErrorCall == [op |-> "none", typ |-> 0]

NoCall ==
  [op |-> "none", authorityID |-> "", id |-> "", status |-> "", err |-> NilError,
   provs |-> <<>>]

\* nothing was evaluated, no error was built, the table is empty
Unused ==
  /\ request = NoRequest
  /\ decision = NoDecision
  /\ errCall = NoErrorCall
  /\ mgmtErr = NilError
  /\ store = <<>>
  /\ clock = 1
  /\ dbCall = NoCall

\* a NamePolicyEngine no option has been applied to
NewEngine ==
  [verifySubjectCommonName |-> FALSE,
   allowLiteralWildcardNames |-> FALSE,
   permittedDNSDomains |-> <<>>,
   excludedDNSDomains |-> <<>>,
   permittedIPRanges |-> <<>>,
   excludedIPRanges |-> <<>>,
   permittedEmailAddresses |-> <<>>,
   excludedEmailAddresses |-> <<>>,
   permittedURIDomains |-> <<>>,
   excludedURIDomains |-> <<>>,
   permittedPrincipals |-> <<>>,
   excludedPrincipals |-> <<>>]

None == [outcome |-> "none", value |-> <<>>, raw |-> <<>>, rule |-> "none"]

NoOption == [outcome |-> "none", raw |-> <<>>, rule |-> "none", list |-> "none"]

\* ------------------------------------------------------------ what an option returns

\* return nil
OptOk == [outcome |-> "ok", raw |-> <<>>, rule |-> "none", list |-> "none"]

\* an error whose message quotes raw, states rule and names list
OptErr(raw, rule, list) == [outcome |-> "err", raw |-> raw, rule |-> rule, list |-> list]

\* the normalizer panicked: the option returns nothing
OptPanic(raw) == [outcome |-> "panic", raw |-> raw, rule |-> "index out of range", list |-> "none"]

\* errors.Errorf("cannot parse permitted domain constraint %q", domain): the
\* normalizer's error is dropped
DNSOptionError(r) ==
  IF r.outcome = "panic" THEN OptPanic(r.raw)
  ELSE OptErr(r.raw, "cannot parse domain constraint", "permitted")

\* return err: the normalizer's error as it is
ReturnedError(r) ==
  IF r.outcome = "panic" THEN OptPanic(r.raw)
  ELSE OptErr(r.raw, r.rule, "none")

\* the index of the first element the loop stops at, 0 when it runs through
FirstFailure(rs) ==
  IF \E i \in 1..Len(rs) : rs[i].outcome # "ok"
    THEN CHOOSE i \in 1..Len(rs) : rs[i].outcome # "ok" /\ \A j \in 1..(i - 1) : rs[j].outcome = "ok"
    ELSE 0

FirstUnparsed(rs) ==
  IF \E i \in 1..Len(rs) : ~rs[i].ok
    THEN CHOOSE i \in 1..Len(rs) : ~rs[i].ok /\ \A j \in 1..(i - 1) : rs[j].ok
    ELSE 0

Values(rs) == [i \in 1..Len(rs) |-> rs[i].value]

Networks(rs) == [i \in 1..Len(rs) |-> rs[i].net]

\* isIPv4 deciding by the length of the slice
isIPv4ByLength(ip) == Len(ip) = 4

isIPv4(ip) == To4(ip) # <<>>

networkFor(ip) ==
  LET mask == IF ~isIPv4(ip) THEN CIDRMask(128, 128) ELSE CIDRMask(32, 32)
  IN [IP |-> ip, Mask |-> mask]

\* one option applied to the engine: it returns res, and has assigned list
\* to the field when it returned nil; options are applied while the engine is
\* built, before it is used
Apply(op, arg, res, field, list) ==
  /\ applied < MaxOptions
  /\ decision = NoDecision
  /\ applied' = applied + 1
  /\ prev' = engine
  /\ lastOp' = op
  /\ lastArg' = arg
  /\ lastErr' = res
  /\ engine' = IF res.outcome = "ok" THEN [engine EXCEPT ![field] = list] ELSE engine
  /\ UNCHANGED <<normVars, evalVars, errVars, dbVars>>

\* ------------------------------------------------------------ options

WithSubjectCommonNameVerification ==
  Apply("WithSubjectCommonNameVerification", <<>>, OptOk, "verifySubjectCommonName", TRUE)

WithAllowLiteralWildcardNames ==
  Apply("WithAllowLiteralWildcardNames", <<>>, OptOk, "allowLiteralWildcardNames", TRUE)

WithPermittedDNSDomains ==
  \E domains \in DNSDomainLists :
    LET rs == [i \in 1..Len(domains) |-> DNSDomainConstraint[domains[i]]]
        k == FirstFailure(rs)
    IN Apply("WithPermittedDNSDomains", domains, IF k = 0 THEN OptOk ELSE DNSOptionError(rs[k]),
             "permittedDNSDomains", Values(rs))

AddPermittedDNSDomains ==
  \E domains \in DNSDomainLists :
    LET rs == [i \in 1..Len(domains) |-> DNSDomainConstraint[domains[i]]]
        k == FirstFailure(rs)
    IN Apply("AddPermittedDNSDomains", domains, IF k = 0 THEN OptOk ELSE DNSOptionError(rs[k]),
             "permittedDNSDomains", engine.permittedDNSDomains \o Values(rs))

WithPermittedDNSDomain ==
  \E domain \in DNSDomains :
    LET r == DNSDomainConstraint[domain]
    IN Apply("WithPermittedDNSDomain", domain, IF r.outcome = "ok" THEN OptOk ELSE DNSOptionError(r),
             "permittedDNSDomains", <<r.value>>)

AddPermittedDNSDomain ==
  \E domain \in DNSDomains :
    LET r == DNSDomainConstraint[domain]
    IN Apply("AddPermittedDNSDomain", domain, IF r.outcome = "ok" THEN OptOk ELSE DNSOptionError(r),
             "permittedDNSDomains", Append(engine.permittedDNSDomains, r.value))

WithExcludedDNSDomains ==
  \E domains \in DNSDomainLists :
    LET rs == [i \in 1..Len(domains) |-> DNSDomainConstraint[domains[i]]]
        k == FirstFailure(rs)
    IN Apply("WithExcludedDNSDomains", domains, IF k = 0 THEN OptOk ELSE DNSOptionError(rs[k]),
             "excludedDNSDomains", Values(rs))

AddExcludedDNSDomains ==
  \E domains \in DNSDomainLists :
    LET rs == [i \in 1..Len(domains) |-> DNSDomainConstraint[domains[i]]]
        k == FirstFailure(rs)
    IN Apply("AddExcludedDNSDomains", domains, IF k = 0 THEN OptOk ELSE DNSOptionError(rs[k]),
             "excludedDNSDomains", engine.excludedDNSDomains \o Values(rs))

WithExcludedDNSDomain ==
  \E domain \in DNSDomains :
    LET r == DNSDomainConstraint[domain]
    IN Apply("WithExcludedDNSDomain", domain, IF r.outcome = "ok" THEN OptOk ELSE DNSOptionError(r),
             "excludedDNSDomains", <<r.value>>)

AddExcludedDNSDomain ==
  \E domain \in DNSDomains :
    LET r == DNSDomainConstraint[domain]
    IN Apply("AddExcludedDNSDomain", domain, IF r.outcome = "ok" THEN OptOk ELSE DNSOptionError(r),
             "excludedDNSDomains", Append(engine.excludedDNSDomains, r.value))

WithPermittedIPRanges ==
  \E ipRanges \in IPRangeLists :
    Apply("WithPermittedIPRanges", ipRanges, OptOk, "permittedIPRanges", ipRanges)

AddPermittedIPRanges ==
  \E ipRanges \in IPRangeLists :
    Apply("AddPermittedIPRanges", ipRanges, OptOk, "permittedIPRanges", engine.permittedIPRanges \o ipRanges)

WithExcludedIPRanges ==
  \E ipRanges \in IPRangeLists :
    Apply("WithExcludedIPRanges", ipRanges, OptOk, "excludedIPRanges", ipRanges)

AddExcludedIPRanges ==
  \E ipRanges \in IPRangeLists :
    Apply("AddExcludedIPRanges", ipRanges, OptOk, "excludedIPRanges", engine.excludedIPRanges \o ipRanges)

WithPermittedCIDRs ==
  \E cidrs \in CIDRLists :
    LET rs == [i \in 1..Len(cidrs) |-> CIDRNetwork[cidrs[i]]]
        k == FirstUnparsed(rs)
    IN Apply("WithPermittedCIDRs", cidrs,
             IF k = 0 THEN OptOk ELSE OptErr(cidrs[k], "cannot parse CIDR", "permitted"),
             "permittedIPRanges", Networks(rs))

AddPermittedCIDRs ==
  \E cidrs \in CIDRLists :
    LET rs == [i \in 1..Len(cidrs) |-> CIDRNetwork[cidrs[i]]]
        k == FirstUnparsed(rs)
    IN Apply("AddPermittedCIDRs", cidrs,
             IF k = 0 THEN OptOk ELSE OptErr(cidrs[k], "cannot parse CIDR", "permitted"),
             "permittedIPRanges", engine.permittedIPRanges \o Networks(rs))

WithPermittedIPsOrCIDRs ==
  \E ipsOrCIDRs \in IPOrCIDRLists :
    LET rs == [i \in 1..Len(ipsOrCIDRs) |->
                 IF CIDRNetwork[ipsOrCIDRs[i]].ok THEN CIDRNetwork[ipsOrCIDRs[i]]
                 ELSE IF IPAddress[ipsOrCIDRs[i]] # <<>>
                   THEN [ok |-> TRUE, net |-> networkFor(IPAddress[ipsOrCIDRs[i]])]
                   ELSE [ok |-> FALSE, net |-> NilIPNet]]
        k == FirstUnparsed(rs)
    IN Apply("WithPermittedIPsOrCIDRs", ipsOrCIDRs,
             IF k = 0 THEN OptOk
             ELSE OptErr(ipsOrCIDRs[k], "cannot parse as IP nor CIDR", "permitted"),
             "permittedIPRanges", Networks(rs))

WithPermittedCIDR ==
  \E cidr \in CIDRs :
    LET r == CIDRNetwork[cidr]
    IN Apply("WithPermittedCIDR", cidr,
             IF r.ok THEN OptOk ELSE OptErr(cidr, "cannot parse CIDR", "permitted"),
             "permittedIPRanges", <<r.net>>)

AddPermittedCIDR ==
  \E cidr \in CIDRs :
    LET r == CIDRNetwork[cidr]
    IN Apply("AddPermittedCIDR", cidr,
             IF r.ok THEN OptOk ELSE OptErr(cidr, "cannot parse CIDR", "permitted"),
             "permittedIPRanges", Append(engine.permittedIPRanges, r.net))

WithPermittedIP ==
  \E ip \in IPs :
    Apply("WithPermittedIP", ip, OptOk, "permittedIPRanges", <<networkFor(ip)>>)

AddPermittedIP ==
  \E ip \in IPs :
    Apply("AddPermittedIP", ip, OptOk, "permittedIPRanges", Append(engine.permittedIPRanges, networkFor(ip)))

WithExcludedCIDRs ==
  \E cidrs \in CIDRLists :
    LET rs == [i \in 1..Len(cidrs) |-> CIDRNetwork[cidrs[i]]]
        k == FirstUnparsed(rs)
    IN Apply("WithExcludedCIDRs", cidrs,
             IF k = 0 THEN OptOk ELSE OptErr(cidrs[k], "cannot parse CIDR", "excluded"),
             "excludedIPRanges", Networks(rs))

AddExcludedCIDRs ==
  \E cidrs \in CIDRLists :
    LET rs == [i \in 1..Len(cidrs) |-> CIDRNetwork[cidrs[i]]]
        k == FirstUnparsed(rs)
    IN Apply("AddExcludedCIDRs", cidrs,
             IF k = 0 THEN OptOk ELSE OptErr(cidrs[k], "cannot parse CIDR", "excluded"),
             "excludedIPRanges", engine.excludedIPRanges \o Networks(rs))

WithExcludedIPsOrCIDRs ==
  \E ipsOrCIDRs \in IPOrCIDRLists :
    LET rs == [i \in 1..Len(ipsOrCIDRs) |->
                 IF CIDRNetwork[ipsOrCIDRs[i]].ok THEN CIDRNetwork[ipsOrCIDRs[i]]
                 ELSE IF IPAddress[ipsOrCIDRs[i]] # <<>>
                   THEN [ok |-> TRUE, net |-> networkFor(IPAddress[ipsOrCIDRs[i]])]
                   ELSE [ok |-> FALSE, net |-> NilIPNet]]
        k == FirstUnparsed(rs)
    IN Apply("WithExcludedIPsOrCIDRs", ipsOrCIDRs,
             IF k = 0 THEN OptOk
             ELSE OptErr(ipsOrCIDRs[k], "cannot parse as IP nor CIDR", "excluded"),
             "excludedIPRanges", Networks(rs))

WithExcludedCIDR ==
  \E cidr \in CIDRs :
    LET r == CIDRNetwork[cidr]
    IN Apply("WithExcludedCIDR", cidr,
             IF r.ok THEN OptOk ELSE OptErr(cidr, "cannot parse CIDR", "excluded"),
             "excludedIPRanges", <<r.net>>)

\* AddExcludedCIDR assigning the list instead of appending to it
AddExcludedCIDRAssigns ==
  \E cidr \in CIDRs :
    LET r == CIDRNetwork[cidr]
    IN Apply("AddExcludedCIDR", cidr,
             IF r.ok THEN OptOk ELSE OptErr(cidr, "cannot parse CIDR", "excluded"),
             "excludedIPRanges", <<r.net>>)

AddExcludedCIDR ==
  \E cidr \in CIDRs :
    LET r == CIDRNetwork[cidr]
    IN Apply("AddExcludedCIDR", cidr,
             IF r.ok THEN OptOk ELSE OptErr(cidr, "cannot parse CIDR", "excluded"),
             "excludedIPRanges", Append(engine.excludedIPRanges, r.net))

WithExcludedIP ==
  \E ip \in IPs :
    LET mask == IF ~isIPv4(ip) THEN CIDRMask(128, 128) ELSE CIDRMask(32, 32)
        nw == [IP |-> ip, Mask |-> mask]
    IN Apply("WithExcludedIP", ip, OptOk, "excludedIPRanges", <<nw>>)

AddExcludedIP ==
  \E ip \in IPs :
    LET mask == IF ~isIPv4(ip) THEN CIDRMask(128, 128) ELSE CIDRMask(32, 32)
        nw == [IP |-> ip, Mask |-> mask]
    IN Apply("AddExcludedIP", ip, OptOk, "excludedIPRanges", Append(engine.excludedIPRanges, nw))

WithPermittedEmailAddresses ==
  \E emailAddresses \in EmailAddressLists :
    LET rs == [i \in 1..Len(emailAddresses) |-> EmailConstraint[emailAddresses[i]]]
        k == FirstFailure(rs)
    IN Apply("WithPermittedEmailAddresses", emailAddresses, IF k = 0 THEN OptOk ELSE ReturnedError(rs[k]),
             "permittedEmailAddresses", Values(rs))

AddPermittedEmailAddresses ==
  \E emailAddresses \in EmailAddressLists :
    LET rs == [i \in 1..Len(emailAddresses) |-> EmailConstraint[emailAddresses[i]]]
        k == FirstFailure(rs)
    IN Apply("AddPermittedEmailAddresses", emailAddresses, IF k = 0 THEN OptOk ELSE ReturnedError(rs[k]),
             "permittedEmailAddresses", engine.permittedEmailAddresses \o Values(rs))

WithPermittedEmailAddress ==
  \E emailAddress \in EmailAddresses :
    LET r == EmailConstraint[emailAddress]
    IN Apply("WithPermittedEmailAddress", emailAddress, IF r.outcome = "ok" THEN OptOk ELSE ReturnedError(r),
             "permittedEmailAddresses", <<r.value>>)

AddPermittedEmailAddress ==
  \E emailAddress \in EmailAddresses :
    LET r == EmailConstraint[emailAddress]
    IN Apply("AddPermittedEmailAddress", emailAddress, IF r.outcome = "ok" THEN OptOk ELSE ReturnedError(r),
             "permittedEmailAddresses", Append(engine.permittedEmailAddresses, r.value))

WithExcludedEmailAddresses ==
  \E emailAddresses \in EmailAddressLists :
    LET rs == [i \in 1..Len(emailAddresses) |-> EmailConstraint[emailAddresses[i]]]
        k == FirstFailure(rs)
    IN Apply("WithExcludedEmailAddresses", emailAddresses, IF k = 0 THEN OptOk ELSE ReturnedError(rs[k]),
             "excludedEmailAddresses", Values(rs))

AddExcludedEmailAddresses ==
  \E emailAddresses \in EmailAddressLists :
    LET rs == [i \in 1..Len(emailAddresses) |-> EmailConstraint[emailAddresses[i]]]
        k == FirstFailure(rs)
    IN Apply("AddExcludedEmailAddresses", emailAddresses, IF k = 0 THEN OptOk ELSE ReturnedError(rs[k]),
             "excludedEmailAddresses", engine.excludedEmailAddresses \o Values(rs))

WithExcludedEmailAddress ==
  \E emailAddress \in EmailAddresses :
    LET r == EmailConstraint[emailAddress]
    IN Apply("WithExcludedEmailAddress", emailAddress, IF r.outcome = "ok" THEN OptOk ELSE ReturnedError(r),
             "excludedEmailAddresses", <<r.value>>)

AddExcludedEmailAddress ==
  \E emailAddress \in EmailAddresses :
    LET r == EmailConstraint[emailAddress]
    IN Apply("AddExcludedEmailAddress", emailAddress, IF r.outcome = "ok" THEN OptOk ELSE ReturnedError(r),
             "excludedEmailAddresses", Append(engine.excludedEmailAddresses, r.value))

WithPermittedURIDomains ==
  \E uriDomains \in URIDomainLists :
    LET rs == [i \in 1..Len(uriDomains) |-> URIDomainConstraint[uriDomains[i]]]
        k == FirstFailure(rs)
    IN Apply("WithPermittedURIDomains", uriDomains, IF k = 0 THEN OptOk ELSE ReturnedError(rs[k]),
             "permittedURIDomains", Values(rs))

AddPermittedURIDomains ==
  \E uriDomains \in URIDomainLists :
    LET rs == [i \in 1..Len(uriDomains) |-> URIDomainConstraint[uriDomains[i]]]
        k == FirstFailure(rs)
    IN Apply("AddPermittedURIDomains", uriDomains, IF k = 0 THEN OptOk ELSE ReturnedError(rs[k]),
             "permittedURIDomains", engine.permittedURIDomains \o Values(rs))

WithPermittedURIDomain ==
  \E uriDomain \in URIDomains :
    LET r == URIDomainConstraint[uriDomain]
    IN Apply("WithPermittedURIDomain", uriDomain, IF r.outcome = "ok" THEN OptOk ELSE ReturnedError(r),
             "permittedURIDomains", <<r.value>>)

AddPermittedURIDomain ==
  \E uriDomain \in URIDomains :
    LET r == URIDomainConstraint[uriDomain]
    IN Apply("AddPermittedURIDomain", uriDomain, IF r.outcome = "ok" THEN OptOk ELSE ReturnedError(r),
             "permittedURIDomains", Append(engine.permittedURIDomains, r.value))

WithExcludedURIDomains ==
  \E uriDomains \in URIDomainLists :
    LET rs == [i \in 1..Len(uriDomains) |-> URIDomainConstraint[uriDomains[i]]]
        k == FirstFailure(rs)
    IN Apply("WithExcludedURIDomains", uriDomains, IF k = 0 THEN OptOk ELSE ReturnedError(rs[k]),
             "excludedURIDomains", Values(rs))

AddExcludedURIDomains ==
  \E uriDomains \in URIDomainLists :
    LET rs == [i \in 1..Len(uriDomains) |-> URIDomainConstraint[uriDomains[i]]]
        k == FirstFailure(rs)
    IN Apply("AddExcludedURIDomains", uriDomains, IF k = 0 THEN OptOk ELSE ReturnedError(rs[k]),
             "excludedURIDomains", engine.excludedURIDomains \o Values(rs))

WithExcludedURIDomain ==
  \E uriDomain \in URIDomains :
    LET r == URIDomainConstraint[uriDomain]
    IN Apply("WithExcludedURIDomain", uriDomain, IF r.outcome = "ok" THEN OptOk ELSE ReturnedError(r),
             "excludedURIDomains", <<r.value>>)

AddExcludedURIDomain ==
  \E uriDomain \in URIDomains :
    LET r == URIDomainConstraint[uriDomain]
    IN Apply("AddExcludedURIDomain", uriDomain, IF r.outcome = "ok" THEN OptOk ELSE ReturnedError(r),
             "excludedURIDomains", Append(engine.excludedURIDomains, r.value))

WithPermittedPrincipals ==
  \E principals \in PrincipalLists :
    Apply("WithPermittedPrincipals", principals, OptOk, "permittedPrincipals", principals)

\* the excluded option assigning the permitted list
WithExcludedPrincipalsAssignsPermitted ==
  \E principals \in PrincipalLists :
    Apply("WithExcludedPrincipals", principals, OptOk, "permittedPrincipals", principals)

WithExcludedPrincipals ==
  \E principals \in PrincipalLists :
    Apply("WithExcludedPrincipals", principals, OptOk, "excludedPrincipals", principals)

\* ------------------------------------------------------------ the engine's specification

Init ==
  /\ engine = NewEngine
  /\ applied = 0
  /\ prev = NewEngine
  /\ lastOp = "none"
  /\ lastArg = <<>>
  /\ lastErr = NoOption
  /\ input = <<>>
  /\ normalizer = "none"
  /\ output = None
  /\ again = None
  /\ Unused

Next ==
  \/ WithSubjectCommonNameVerification
  \/ WithAllowLiteralWildcardNames
  \/ WithPermittedDNSDomains
  \/ AddPermittedDNSDomains
  \/ WithPermittedDNSDomain
  \/ AddPermittedDNSDomain
  \/ WithExcludedDNSDomains
  \/ AddExcludedDNSDomains
  \/ WithExcludedDNSDomain
  \/ AddExcludedDNSDomain
  \/ WithPermittedIPRanges
  \/ AddPermittedIPRanges
  \/ WithExcludedIPRanges
  \/ AddExcludedIPRanges
  \/ WithPermittedCIDRs
  \/ AddPermittedCIDRs
  \/ WithPermittedIPsOrCIDRs
  \/ WithPermittedCIDR
  \/ AddPermittedCIDR
  \/ WithPermittedIP
  \/ AddPermittedIP
  \/ WithExcludedCIDRs
  \/ AddExcludedCIDRs
  \/ WithExcludedIPsOrCIDRs
  \/ WithExcludedCIDR
  \/ AddExcludedCIDR
  \/ WithExcludedIP
  \/ AddExcludedIP
  \/ WithPermittedEmailAddresses
  \/ AddPermittedEmailAddresses
  \/ WithPermittedEmailAddress
  \/ AddPermittedEmailAddress
  \/ WithExcludedEmailAddresses
  \/ AddExcludedEmailAddresses
  \/ WithExcludedEmailAddress
  \/ AddExcludedEmailAddress
  \/ WithPermittedURIDomains
  \/ AddPermittedURIDomains
  \/ WithPermittedURIDomain
  \/ AddPermittedURIDomain
  \/ WithExcludedURIDomains
  \/ AddExcludedURIDomains
  \/ WithExcludedURIDomain
  \/ AddExcludedURIDomain
  \/ WithPermittedPrincipals
  \/ WithExcludedPrincipals

Spec == Init /\ [][Next]_vars

\* ------------------------------------------------------------ the normalizers' specification

\* the characters of the exhaustive inputs
Alphabet == {"a", "A", ".", "*", "@", " ", "\\", "U+3002"}

\* longer inputs: a:80, [::1], ::1, 1.1.1.1, U+FF11.1.1.1, "."@a, a.b@a.b
LongInputs ==
  {<<"a", ":", "8", "0">>,
   <<"[", ":", ":", "1", "]">>,
   <<":", ":", "1">>,
   <<"1", ".", "1", ".", "1", ".", "1">>,
   <<"U+FF11", ".", "1", ".", "1", ".", "1">>,
   <<"\"", ".", "\"", "@", "a">>,
   <<"a", ".", "b", "@", "a", ".", "b">>}

RawInputs == UNION {[1..n -> Alphabet] : n \in 0..MaxLen} \cup LongInputs

InitNorm ==
  /\ engine = NewEngine
  /\ applied = 0
  /\ prev = NewEngine
  /\ lastOp = "none"
  /\ lastArg = <<>>
  /\ lastErr = NoOption
  /\ input \in RawInputs
  /\ normalizer = "none"
  /\ output = None
  /\ again = None
  /\ Unused

\* the normalizer is called on the input
Normalize(kind, result) ==
  /\ normalizer = "none"
  /\ normalizer' = kind
  /\ output' = result
  /\ UNCHANGED <<input, again>>
  /\ UNCHANGED <<engineVars, evalVars, errVars, dbVars>>

\* the normalizer is called on the constraint it returned
Renormalize(kind, result) ==
  /\ normalizer = kind
  /\ output.outcome = "ok"
  /\ again = None
  /\ again' = result
  /\ UNCHANGED <<input, normalizer, output>>
  /\ UNCHANGED <<engineVars, evalVars, errVars, dbVars>>

\* the three normalizers on every input, and on every constraint they return
OkValues(table) == {table[s].value : s \in {x \in DOMAIN table : table[x].outcome = "ok"}}

DNSOf == [s \in RawInputs |-> normalizeAndValidateDNSDomainConstraint(s)]

EmailOf == [s \in RawInputs |-> normalizeAndValidateEmailConstraint(s)]

URIOf == [s \in RawInputs |-> normalizeAndValidateURIDomainConstraint(s)]

DNSAgain == [c \in OkValues(DNSOf) |-> normalizeAndValidateDNSDomainConstraint(c)]

EmailAgain == [c \in OkValues(EmailOf) |-> normalizeAndValidateEmailConstraint(c)]

URIAgain == [c \in OkValues(URIOf) |-> normalizeAndValidateURIDomainConstraint(c)]

NormalizeDNS == Normalize("dns", DNSOf[input])

NormalizeEmail == Normalize("email", EmailOf[input])

NormalizeURI == Normalize("uri", URIOf[input])

RenormalizeDNS == Renormalize("dns", DNSAgain[output.value])

RenormalizeEmail == Renormalize("email", EmailAgain[output.value])

RenormalizeURI == Renormalize("uri", URIAgain[output.value])

NextNorm ==
  \/ NormalizeDNS
  \/ NormalizeEmail
  \/ NormalizeURI
  \/ RenormalizeDNS
  \/ RenormalizeEmail
  \/ RenormalizeURI

SpecNorm == InitNorm /\ [][NextNorm]_vars

\* ------------------------------------------------------------ the options, by name

\* the options by the kind of constraint they take
DNSOptions ==
  {"WithPermittedDNSDomains", "AddPermittedDNSDomains", "WithExcludedDNSDomains",
   "AddExcludedDNSDomains", "WithPermittedDNSDomain", "AddPermittedDNSDomain",
   "WithExcludedDNSDomain", "AddExcludedDNSDomain"}

\* CIDR strings
CIDROptions ==
  {"WithPermittedCIDRs", "AddPermittedCIDRs", "WithExcludedCIDRs", "AddExcludedCIDRs",
   "WithPermittedCIDR", "AddPermittedCIDR", "WithExcludedCIDR", "AddExcludedCIDR"}

\* strings that are an IP address or a CIDR
IPOrCIDROptions ==
  {"WithPermittedIPsOrCIDRs", "WithExcludedIPsOrCIDRs"}

\* net.IP values
IPOptions ==
  {"WithPermittedIP", "AddPermittedIP", "WithExcludedIP", "AddExcludedIP"}

\* *net.IPNet values
IPRangeOptions ==
  {"WithPermittedIPRanges", "AddPermittedIPRanges", "WithExcludedIPRanges",
   "AddExcludedIPRanges"}

\* email constraints
EmailOptions ==
  {"WithPermittedEmailAddresses", "AddPermittedEmailAddresses",
   "WithExcludedEmailAddresses", "AddExcludedEmailAddresses",
   "WithPermittedEmailAddress", "AddPermittedEmailAddress", "WithExcludedEmailAddress",
   "AddExcludedEmailAddress"}

\* URI domain constraints
URIOptions ==
  {"WithPermittedURIDomains", "AddPermittedURIDomains", "WithPermittedURIDomain",
   "AddPermittedURIDomain", "WithExcludedURIDomains", "AddExcludedURIDomains",
   "WithExcludedURIDomain", "AddExcludedURIDomain"}

\* SSH principals
PrincipalOptions ==
  {"WithPermittedPrincipals", "WithExcludedPrincipals"}

\* the options that take a list of raw constraints
ListOptions ==
  {"WithPermittedDNSDomains", "AddPermittedDNSDomains", "WithExcludedDNSDomains",
   "AddExcludedDNSDomains", "WithPermittedCIDRs", "AddPermittedCIDRs",
   "WithExcludedCIDRs", "AddExcludedCIDRs", "WithPermittedIPsOrCIDRs",
   "WithExcludedIPsOrCIDRs", "WithPermittedEmailAddresses",
   "AddPermittedEmailAddresses", "WithExcludedEmailAddresses",
   "AddExcludedEmailAddresses", "WithPermittedURIDomains", "AddPermittedURIDomains",
   "WithExcludedURIDomains", "AddExcludedURIDomains"}

\* the options that take one raw constraint
SingleOptions ==
  {"AddExcludedCIDR", "AddExcludedDNSDomain", "AddExcludedEmailAddress",
   "AddExcludedURIDomain", "AddPermittedCIDR", "AddPermittedDNSDomain",
   "AddPermittedEmailAddress", "AddPermittedURIDomain", "WithExcludedCIDR",
   "WithExcludedDNSDomain", "WithExcludedEmailAddress", "WithExcludedURIDomain",
   "WithPermittedCIDR", "WithPermittedDNSDomain", "WithPermittedEmailAddress",
   "WithPermittedURIDomain"}

\* the options that append
AddOptions ==
  {"AddPermittedDNSDomains", "AddExcludedDNSDomains", "AddPermittedDNSDomain",
   "AddExcludedDNSDomain", "AddPermittedIPRanges", "AddPermittedCIDRs",
   "AddExcludedCIDRs", "AddPermittedCIDR", "AddPermittedIP", "AddExcludedIPRanges",
   "AddExcludedCIDR", "AddExcludedIP", "AddPermittedEmailAddresses",
   "AddExcludedEmailAddresses", "AddPermittedEmailAddress", "AddExcludedEmailAddress",
   "AddPermittedURIDomains", "AddPermittedURIDomain", "AddExcludedURIDomains",
   "AddExcludedURIDomain"}

\* the options on an excluded list
ExcludedOptions ==
  {"WithExcludedDNSDomains", "AddExcludedDNSDomains", "WithExcludedDNSDomain",
   "AddExcludedDNSDomain", "WithExcludedCIDRs", "AddExcludedCIDRs",
   "WithExcludedIPsOrCIDRs", "WithExcludedIPRanges", "AddExcludedIPRanges",
   "WithExcludedCIDR", "AddExcludedCIDR", "WithExcludedIP", "AddExcludedIP",
   "WithExcludedEmailAddresses", "AddExcludedEmailAddresses",
   "WithExcludedEmailAddress", "AddExcludedEmailAddress", "WithExcludedURIDomains",
   "AddExcludedURIDomains", "WithExcludedURIDomain", "AddExcludedURIDomain",
   "WithExcludedPrincipals"}

\* the field of the engine an option assigns
TargetField(op) ==
  LET excluded == op \in ExcludedOptions
  IN CASE op \in DNSOptions ->
            IF excluded THEN "excludedDNSDomains" ELSE "permittedDNSDomains"
       [] op \in CIDROptions \cup IPOrCIDROptions \cup IPOptions \cup IPRangeOptions ->
            IF excluded THEN "excludedIPRanges" ELSE "permittedIPRanges"
       [] op \in EmailOptions ->
            IF excluded THEN "excludedEmailAddresses" ELSE "permittedEmailAddresses"
       [] op \in URIOptions ->
            IF excluded THEN "excludedURIDomains" ELSE "permittedURIDomains"
       [] op \in PrincipalOptions ->
            IF excluded THEN "excludedPrincipals" ELSE "permittedPrincipals"

ConstraintOptions ==
  DNSOptions \cup CIDROptions \cup IPOrCIDROptions \cup IPOptions \cup IPRangeOptions
    \cup EmailOptions \cup URIOptions \cup PrincipalOptions

\* the inputs of an option, as a list
Inputs(op, arg) == IF op \in SingleOptions \cup IPOptions THEN <<arg>> ELSE arg

\* the raw constraint x does not parse as the kind of constraint op takes
Rejected(op, x) ==
  CASE op \in DNSOptions -> DNSDomainConstraint[x].outcome # "ok"
    [] op \in EmailOptions -> EmailConstraint[x].outcome # "ok"
    [] op \in URIOptions -> URIDomainConstraint[x].outcome # "ok"
    [] op \in CIDROptions -> ~CIDRNetwork[x].ok
    [] op \in IPOrCIDROptions -> ~CIDRNetwork[x].ok /\ IPAddress[x] = <<>>
    [] OTHER -> FALSE

\* the rule x breaks
RuleViolated(op, x) ==
  CASE op \in DNSOptions -> DNSDomainConstraint[x].rule
    [] op \in EmailOptions -> EmailConstraint[x].rule
    [] op \in URIOptions -> URIDomainConstraint[x].rule
    [] op \in CIDROptions -> "cannot parse CIDR"
    [] op \in IPOrCIDROptions -> "cannot parse as IP nor CIDR"

AllOnes(n) == [k \in 1..n |-> 255]

\* the network of one host: /32 for an IPv4 or IPv4-mapped address, /128 otherwise
HostNetwork(ip) == [IP |-> ip, Mask |-> IF To4(ip) # <<>> THEN AllOnes(4) ELSE AllOnes(16)]

\* the constraint an option holds for the input x
Stored(op, x) ==
  CASE op \in DNSOptions -> DNSDomainConstraint[x].value
    [] op \in EmailOptions -> EmailConstraint[x].value
    [] op \in URIOptions -> URIDomainConstraint[x].value
    [] op \in CIDROptions -> CIDRNetwork[x].net
    [] op \in IPOrCIDROptions ->
         IF CIDRNetwork[x].ok THEN CIDRNetwork[x].net ELSE HostNetwork(IPAddress[x])
    [] op \in IPOptions -> HostNetwork(x)
    [] OTHER -> x

NormalizedInputs(op, arg) ==
  [i \in 1..Len(Inputs(op, arg)) |-> Stored(op, Inputs(op, arg)[i])]

\* ------------------------------------------------------------ properties of the options

\* C1: when an element of the list handed to a list option does not
\* normalize, the option returns an error and the engine is as it was before.
C1_FailingListOptionReturnsError ==
  (/\ lastOp \in ListOptions
   /\ \E i \in 1..Len(lastArg) : Rejected(lastOp, lastArg[i]))
    => (lastErr.outcome = "err" /\ engine = prev)

ValidNetwork(n) ==
  /\ Len(n.IP) \in {4, 16}
  /\ Len(n.Mask) \in {4, 16}
  /\ Len(n.Mask) = 16 => Len(n.IP) = 16
  /\ Len(n.Mask) = 4 => To4(n.IP) # <<>>
  /\ \E ones \in 0..(8 * Len(n.Mask)) : n.Mask = CIDRMask(ones, 8 * Len(n.Mask))

\* C4: every constraint the engine holds has passed the normalization or
\* validation of its kind: the names are results of their normalizer and the
\* IP ranges are well-formed networks.
C4_OnlyNormalizedConstraints ==
  /\ \A i \in 1..Len(engine.permittedDNSDomains) :
       engine.permittedDNSDomains[i] \in OkValues(DNSDomainConstraint)
  /\ \A i \in 1..Len(engine.excludedDNSDomains) :
       engine.excludedDNSDomains[i] \in OkValues(DNSDomainConstraint)
  /\ \A i \in 1..Len(engine.permittedEmailAddresses) :
       engine.permittedEmailAddresses[i] \in OkValues(EmailConstraint)
  /\ \A i \in 1..Len(engine.excludedEmailAddresses) :
       engine.excludedEmailAddresses[i] \in OkValues(EmailConstraint)
  /\ \A i \in 1..Len(engine.permittedURIDomains) :
       engine.permittedURIDomains[i] \in OkValues(URIDomainConstraint)
  /\ \A i \in 1..Len(engine.excludedURIDomains) :
       engine.excludedURIDomains[i] \in OkValues(URIDomainConstraint)
  /\ \A i \in 1..Len(engine.permittedIPRanges) : ValidNetwork(engine.permittedIPRanges[i])
  /\ \A i \in 1..Len(engine.excludedIPRanges) : ValidNetwork(engine.excludedIPRanges[i])

\* C6: an error an option returns for a constraint that did not normalize
\* quotes that constraint, states the rule it breaks, and does not name the
\* permitted list when the option is one on an excluded list.
C6_ErrorNamesInputAndRule ==
  lastErr.outcome = "err"
    => /\ \E i \in 1..Len(Inputs(lastOp, lastArg)) :
            /\ Inputs(lastOp, lastArg)[i] = lastErr.raw
            /\ Rejected(lastOp, lastErr.raw)
       /\ lastErr.rule = RuleViolated(lastOp, lastErr.raw)
       /\ lastOp \in ExcludedOptions => lastErr.list # "permitted"

Last(list) == list[Len(list)]

\* the prefix length written in a CIDR literal
PrefixLength(cidr) == NumVal(From(cidr, Index(cidr, "/") + 1), 10)

\* the address written in a CIDR literal
AddressOf(cidr) == ParseIP(Upto(cidr, Index(cidr, "/")))

C2_NormalizationNeverPanics ==
  output.outcome # "panic" /\ again.outcome # "panic"

\* C5: the local part of an accepted mailbox constraint is the local part
\* written in the input, in the case it was written in.
C5_LocalPartCasePreserved ==
  (/\ normalizer = "email"
   /\ output.outcome = "ok"
   /\ Contains(output.value, <<"@">>)
   /\ parseRFC2821Mailbox(TrimSpace(input)).ok)
    => Upto(output.value, LastIndex(output.value, "@"))
         = parseRFC2821Mailbox(TrimSpace(input)).local

\* C7: the DNS normalizer rejects every input with a "*" that is not its
\* first character followed by "."; an accepted input that starts with "*."
\* gives the rest of it from the "." on, and an accepted input without "*"
\* gives itself, both trimmed, in lower case and in ASCII.
C7_WildcardOnlyAsFirstLabel ==
  normalizer = "dns" =>
    /\ (/\ Contains(ToLower(TrimSpace(input)), <<"*">>)
        /\ ~(/\ HasPrefix(ToLower(TrimSpace(input)), <<"*", ".">>)
             /\ Count(ToLower(TrimSpace(input)), "*") = 1))
         => output.outcome = "err"
    /\ (output.outcome = "ok" /\ HasPrefix(ToLower(TrimSpace(input)), <<"*", ".">>))
         => /\ output.value = IdnaToASCII(From(ToLower(TrimSpace(input)), 1)).value
            /\ At(output.value, 0) = "."
    /\ (output.outcome = "ok" /\ ~Contains(ToLower(TrimSpace(input)), <<"*">>))
         => output.value = IdnaToASCII(ToLower(TrimSpace(input))).value

\* the input of the URI normalizer trimmed, in lower case, without one leading "*"
URIHost(raw) ==
  IF HasPrefix(ToLower(TrimSpace(raw)), <<"*", ".">>)
    THEN From(ToLower(TrimSpace(raw)), 1)
    ELSE ToLower(TrimSpace(raw))

\* C8: the URI normalizer returns an error for every input with a bracket, a
\* port, an IP literal, an empty label or a remaining "*", and no constraint
\* it returns is an IP literal or carries a port.
C8_URIRejectsPortsAndIPs ==
  normalizer = "uri" =>
    /\ (/\ URIHost(input) # <<>>
        /\ \/ Contains(URIHost(input), <<"[">>)
           \/ Contains(URIHost(input), <<"]">>)
           \/ SplitHostPortOK(URIHost(input))
           \/ ParseIP(URIHost(input)) # <<>>
           \/ Contains(URIHost(input), <<".", ".">>)
           \/ Contains(URIHost(input), <<"*">>))
         => output.outcome = "err"
    /\ (output.outcome = "ok" /\ output.value # <<>>)
         => ParseIP(output.value) = <<>> /\ ~SplitHostPortOK(output.value)

\* C10: a normalizer run on a constraint it returned returns that constraint.
C10_NormalizationIdempotent ==
  again # None => (again.outcome = "ok" /\ again.value = output.value)

\* ------------------------------------------------------------ set and add, per list

\* the permitted and the excluded list of every kind
ListFields ==
  {"permittedDNSDomains", "excludedDNSDomains", "permittedIPRanges", "excludedIPRanges",
   "permittedEmailAddresses", "excludedEmailAddresses", "permittedURIDomains",
   "excludedURIDomains", "permittedPrincipals", "excludedPrincipals"}

\* one option applied gives the list of field as it is, followed by more
Extends(field) ==
  /\ Next
  /\ Len(engine'[field]) > Len(engine[field])
  /\ SubSeq(engine'[field], 1, Len(engine[field])) = engine[field]

\* C11: whatever the engine holds, each permitted and each excluded list that
\* is not empty can be extended by one option: every kind has an add option
\* on both lists.
C11_EveryListCanBeExtended ==
  applied < MaxOptions =>
    \A field \in ListFields : Len(engine[field]) > 0 => ENABLED Extends(field)

\* ------------------------------------------------------------ the matcher

\* the reversed labels a stored domain constraint stands for: a leading "."
\* marks a constraint that matches subdomains only
ConstraintLabels(constraint) ==
  ReverseLabels(IF HasPrefix(constraint, <<".">>) THEN Tail(constraint) ELSE constraint)

\* domain-style matching on reversed labels
LabelsMatch(cl, dl, subdomain_only) ==
  /\ Len(dl) >= Len(cl)
  /\ \A k \in 1..Len(cl) : cl[k] = dl[k]
  /\ \/ Len(dl) = Len(cl) /\ ~subdomain_only
     \/ Len(dl) > Len(cl)

MatchDomain(constraint, domain) ==
  LabelsMatch(ConstraintLabels(constraint), ReverseLabels(ToLower(domain)),
              HasPrefix(constraint, <<".">>))

\* the address family of a network and of an address
NetworkFamily(n) ==
  IF Len(n.Mask) = 4 /\ Len(To4(n.IP)) = 4 THEN "v4"
  ELSE IF Len(n.Mask) = 16 /\ Len(n.IP) = 16 THEN "v6"
  ELSE "none"

AddressFamily(ip) ==
  IF Len(To4(ip)) = 4 THEN "v4" ELSE IF Len(ip) = 16 THEN "v6" ELSE "none"

\* network matching: same family, and candidate & mask = network address
MatchNetwork(n, ip) ==
  /\ NetworkFamily(n) # "none"
  /\ NetworkFamily(n) = AddressFamily(ip)
  /\ IF NetworkFamily(n) = "v4"
       THEN MaskIP(To4(ip), n.Mask) = To4(n.IP)
       ELSE MaskIP(ip, n.Mask) = n.IP

\* email matching: a constraint with a local part matches that mailbox only,
\* a constraint without one matches by domain
MatchEmail(constraint, local, domain) ==
  IF Contains(constraint, <<"@">>)
    THEN /\ Upto(constraint, Index(constraint, "@")) = local
         /\ ToLower(From(constraint, Index(constraint, "@") + 1)) = ToLower(domain)
    ELSE MatchDomain(constraint, domain)

\* the host of a URI: what stands between "://" and the next "/", without a port
HostOfAuthority(authority) ==
  IF Index(authority, ":") = -1 THEN authority ELSE Upto(authority, Index(authority, ":"))

HostOfURI(uri) ==
  IF Index(uri, ":") < 1 \/ ~HasPrefix(From(uri, Index(uri, ":")), <<":", "/", "/">>)
    THEN <<>>
    ELSE HostOfAuthority(Split(From(uri, Index(uri, ":") + 3), "/")[1])

ValidDomain(name) ==
  /\ name # <<>>
  /\ IdnaToASCII(ToLower(name)).ok
  /\ domainToReverseLabels(ToLower(name))

\* a candidate identifier as the matcher sees it
DomainCandidate(kind, wildcard, name) ==
  [kind |-> kind, wildcard |-> wildcard, ok |-> ValidDomain(name), name |-> name,
   ip |-> <<>>, local |-> <<>>]

AddressCandidate(ip) ==
  [kind |-> "ip", wildcard |-> FALSE, ok |-> ip # <<>>, name |-> <<>>, ip |-> ip,
   local |-> <<>>]

MailboxCandidate(mailbox) ==
  [kind |-> "email", wildcard |-> FALSE, ok |-> mailbox.ok, name |-> mailbox.domain,
   ip |-> <<>>, local |-> mailbox.local]

PrincipalCandidate(principal) ==
  [kind |-> "principal", wildcard |-> FALSE, ok |-> TRUE, name |-> principal,
   ip |-> <<>>, local |-> <<>>]

Classify(id) ==
  CASE id.kind = "dns" ->
         IF HasPrefix(id.value, <<"*", ".">>)
           THEN DomainCandidate("dns", TRUE, From(id.value, 2))
           ELSE DomainCandidate("dns", FALSE, id.value)
    [] id.kind = "ip" -> AddressCandidate(ParseIP(id.value))
    [] id.kind = "email" -> MailboxCandidate(parseRFC2821Mailbox(id.value))
    [] id.kind = "uri" -> DomainCandidate("uri", FALSE, HostOfURI(id.value))
    [] OTHER -> PrincipalCandidate(id.value)

\* matches(constraint, candidate)
Matches(constraint, c) ==
  CASE c.kind = "dns" -> MatchDomain(constraint, c.name)
    [] c.kind = "ip" -> MatchNetwork(constraint, c.ip)
    [] c.kind = "email" -> MatchEmail(constraint, c.local, c.name)
    [] c.kind = "uri" -> MatchDomain(constraint, c.name)
    [] OTHER -> constraint = c.name

\* every constraint of the list has to match
MatchesEvery(list, c) == \A i \in 1..Len(list) : Matches(list[i], c)

MatchesAny(list, c) == \E i \in 1..Len(list) : Matches(list[i], c)

PermittedField(kind) ==
  CASE kind = "dns" -> "permittedDNSDomains"
    [] kind = "ip" -> "permittedIPRanges"
    [] kind = "email" -> "permittedEmailAddresses"
    [] kind = "uri" -> "permittedURIDomains"
    [] OTHER -> "permittedPrincipals"

ExcludedField(kind) ==
  CASE kind = "dns" -> "excludedDNSDomains"
    [] kind = "ip" -> "excludedIPRanges"
    [] kind = "email" -> "excludedEmailAddresses"
    [] kind = "uri" -> "excludedURIDomains"
    [] OTHER -> "excludedPrincipals"

\* ------------------------------------------------------------ the evaluator

Allow == [verdict |-> "allow", reason |-> "none"]

Deny(reason) == [verdict |-> "deny", reason |-> reason]

\* the permitted list is consulted only for a candidate no excluded constraint matches
DecidePermittedFirst(e, c) ==
  IF c.wildcard /\ ~e.allowLiteralWildcardNames THEN Deny("disallowed-wildcard")
  ELSE IF ~c.ok THEN Deny("malformed-identifier")
  ELSE IF Len(e[PermittedField(c.kind)]) > 0
    THEN IF MatchesAny(e[PermittedField(c.kind)], c)
           THEN Allow ELSE Deny("no-permitted-match")
  ELSE IF MatchesAny(e[ExcludedField(c.kind)], c) THEN Deny("excluded-match")
  ELSE Allow

\* the decision for one candidate
Decide(e, c) ==
  IF c.wildcard /\ ~e.allowLiteralWildcardNames THEN Deny("disallowed-wildcard")
  ELSE IF ~c.ok THEN Deny("malformed-identifier")
  ELSE IF MatchesAny(e[ExcludedField(c.kind)], c) THEN Deny("excluded-match")
  ELSE IF Len(e[PermittedField(c.kind)]) > 0 /\ ~MatchesAny(e[PermittedField(c.kind)], c)
    THEN Deny("no-permitted-match")
  ELSE Allow

\* the kind of a Subject Common Name, from its shape
InferKind(cn) ==
  IF ParseIP(cn) # <<>> THEN "ip"
  ELSE IF Contains(cn, <<"@">>) THEN "email"
  ELSE "dns"

\* the identifiers a request is evaluated on
Evaluated(e, r) ==
  r.identifiers \o
    (IF e.verifySubjectCommonName /\ r.commonName # <<>>
       THEN <<[kind |-> InferKind(r.commonName), value |-> r.commonName]>>
       ELSE <<>>)

\* sample requests: names under and beside the sample constraints, a literal
\* wildcard name, addresses of both families, a malformed mailbox
Requests ==
  {[identifiers |-> <<[kind |-> "dns", value |-> <<"c", ".", "a">>]>>,
    commonName |-> <<"a", "@", "b">>],
   [identifiers |-> <<[kind |-> "dns", value |-> <<"*", ".", "a", ".", "b">>],
                      [kind |-> "ip", value |-> <<":", ":", "1">>]>>,
    commonName |-> <<>>],
   [identifiers |-> <<[kind |-> "ip", value |-> <<"1", "0", ".", "1", ".", "2", ".", "3">>],
                      [kind |-> "email", value |-> <<"c", "@", "a", ".", "b">>]>>,
    commonName |-> <<>>],
   [identifiers |-> <<[kind |-> "uri", value |-> <<"s", ":", "/", "/", "c", ".", "a", "/">>],
                      [kind |-> "principal", value |-> <<"a">>]>>,
    commonName |-> <<"1", ".", "2", ".", "3", ".", "4">>],
   [identifiers |-> <<[kind |-> "email", value |-> <<"@">>],
                      [kind |-> "dns", value |-> <<"a", ".", "b">>]>>,
    commonName |-> <<"A", ".", "b">>]}

\* every identifier a sample request can be evaluated on
Identifiers ==
  UNION {{r.identifiers[i] : i \in 1..Len(r.identifiers)} : r \in Requests}
    \cup {[kind |-> InferKind(r.commonName), value |-> r.commonName] :
            r \in {q \in Requests : q.commonName # <<>>}}

Candidate == [id \in Identifiers |-> Classify(id)]

\* the decision for each identifier of a request
Decisions(e, ids) == [i \in 1..Len(ids) |-> Decide(e, Candidate[ids[i]])]

\* the index of the first identifier denied, or 0
FirstDenied(ds) ==
  IF \E i \in 1..Len(ds) : ds[i].verdict = "deny"
    THEN CHOOSE i \in 1..Len(ds) :
           ds[i].verdict = "deny" /\ \A j \in 1..(i - 1) : ds[j].verdict = "allow"
    ELSE 0

\* a request is allowed when every identifier is; the first denial names the
\* identifier and the reason
Verdict(ds, denied) ==
  IF denied = 0
    THEN [verdict |-> "allow", reason |-> "none", identifier |-> 0]
    ELSE [verdict |-> "deny", reason |-> ds[denied].reason, identifier |-> denied]

WholeRequest(ds) == Verdict(ds, FirstDenied(ds))

\* authorize(engine, identifiers, subject_common_name)
authorize(e, r) == WholeRequest(Decisions(e, Evaluated(e, r)))

\* the evaluation of a request on the engine as configured so far
Authorize ==
  \E r \in Requests :
    /\ decision = NoDecision
    /\ request' = r
    /\ decision' = authorize(engine, r)
    /\ UNCHANGED <<engineVars, normVars, errVars, dbVars>>

\* the engine is configured, then used read-only
NextEval == Next \/ Authorize

SpecEval == Init /\ [][NextEval]_vars

\* C12: an identifier that matches an excluded constraint of its kind is
\* denied, whatever permitted constraints it matches and in whatever order the
\* lists were configured, and the request it belongs to is denied with it.
C12_ExcludedIsAbsolute ==
  decision # NoDecision =>
    \A i \in 1..Len(Evaluated(engine, request)) :
      MatchesAny(engine[ExcludedField(Candidate[Evaluated(engine, request)[i]].kind)],
                 Candidate[Evaluated(engine, request)[i]])
        => /\ Decide(engine, Candidate[Evaluated(engine, request)[i]]).verdict = "deny"
           /\ decision.verdict = "deny"

\* an evaluated identifier matches a permitted and an excluded constraint
C12_PermittedAndExcludedMatch ==
  /\ decision.verdict = "deny"
  /\ \E i \in 1..Len(Evaluated(engine, request)) :
       /\ MatchesAny(engine[ExcludedField(Candidate[Evaluated(engine, request)[i]].kind)],
                     Candidate[Evaluated(engine, request)[i]])
       /\ MatchesAny(engine[PermittedField(Candidate[Evaluated(engine, request)[i]].kind)],
                     Candidate[Evaluated(engine, request)[i]])

\* the engine without the permitted constraints of every other kind
WithoutOtherPermitted(e, kind) ==
  [f \in DOMAIN e |->
     IF f \in {PermittedField(k) : k \in {"dns", "ip", "email", "uri", "principal"} \ {kind}}
       THEN <<>> ELSE e[f]]

\* for a candidate no excluded constraint matches, the permitted list of its
\* kind decides, and no other permitted list has a say
PermittedDecides(e, c) ==
  (~\E k \in 1..Len(e[ExcludedField(c.kind)]) : Matches(e[ExcludedField(c.kind)][k], c))
    => /\ Decide(e, c).verdict = "allow"
            <=> \/ Len(e[PermittedField(c.kind)]) = 0
                \/ \E k \in 1..Len(e[PermittedField(c.kind)]) :
                     Matches(e[PermittedField(c.kind)][k], c)
       /\ Decide(WithoutOtherPermitted(e, c.kind), c) = Decide(e, c)

\* C13 as stated: every candidate that matches no excluded constraint is
\* allowed when the permitted list of its kind is empty, and otherwise exactly
\* when it matches a permitted constraint; other kinds' lists do not matter.
C13_PermittedDecidesEveryCandidate ==
  decision # NoDecision =>
    \A i \in 1..Len(Evaluated(engine, request)) :
      PermittedDecides(engine, Candidate[Evaluated(engine, request)[i]])

\* a candidate the evaluator hands to the matcher: well-formed, and no literal
\* wildcard name while the engine does not allow them
Matchable(e, c) == c.ok /\ (c.wildcard => e.allowLiteralWildcardNames)

\* C13, for the candidates that reach the matcher: a well-formed candidate
\* that is not a rejected literal wildcard name and matches no excluded
\* constraint is allowed when the permitted list of its kind is empty, and
\* otherwise exactly when it matches a permitted constraint; other kinds'
\* permitted lists do not matter.
C13_PermittedDecidesMatchable ==
  decision # NoDecision =>
    \A i \in 1..Len(Evaluated(engine, request)) :
      Matchable(engine, Candidate[Evaluated(engine, request)[i]])
        => PermittedDecides(engine, Candidate[Evaluated(engine, request)[i]])

\* a candidate is allowed by one of two permitted constraints of its kind
\* while another kind has permitted constraints too
OneOfTwoPermitted(e, c) ==
  /\ Matchable(e, c)
  /\ Len(e[PermittedField(c.kind)]) > 1
  /\ MatchesAny(e[PermittedField(c.kind)], c)
  /\ ~Matches(e[PermittedField(c.kind)][1], c)
  /\ Decide(e, c).verdict = "allow"
  /\ \E k \in {"dns", "ip", "email", "uri", "principal"} \ {c.kind} :
       Len(e[PermittedField(k)]) > 0

C13_AllowedByOnePermitted ==
  /\ decision.verdict = "allow"
  /\ \E i \in 1..Len(Evaluated(engine, request)) :
       OneOfTwoPermitted(engine, Candidate[Evaluated(engine, request)[i]])

\* ------------------------------------------------------------ package mgmt: errors

ErrorNotFoundType == 0
ErrorAuthorityMismatchType == 1
ErrorDeletedType == 2
ErrorServerInternalType == 3

\* the ProblemType constants
DefinedTypes ==
  {ErrorNotFoundType, ErrorAuthorityMismatchType, ErrorDeletedType, ErrorServerInternalType}

\* ProblemType.String
String(ap) ==
  CASE ap = ErrorNotFoundType -> "notFound"
    [] ap = ErrorAuthorityMismatchType -> "authorityMismatch"
    [] ap = ErrorDeletedType -> "deleted"
    [] ap = ErrorServerInternalType -> "internalServerError"
    [] OTHER -> "unsupported error type '" \o ToString(ap) \o "'"

errorServerInternalMetadata ==
  [typ |-> String(ErrorServerInternalType),
   details |-> "the server experienced an internal error",
   status |-> 500]

errorMap ==
  (ErrorNotFoundType :>
     [typ |-> String(ErrorNotFoundType), details |-> "resource not found", status |-> 400])
  @@ (ErrorAuthorityMismatchType :>
     [typ |-> String(ErrorAuthorityMismatchType),
      details |-> "resource not owned by authority", status |-> 401])
  @@ (ErrorDeletedType :>
     [typ |-> String(ErrorNotFoundType), details |-> "resource is deleted", status |-> 403])
  @@ (ErrorServerInternalType :> errorServerInternalMetadata)

\* (*Error).IsType
IsType(e, pt) == String(pt) = e.Type

\* the Error built from an errorMetadata; Err is the chain of messages of the
\* wrapped error, outermost first
ErrorOf(meta, err) ==
  [Type |-> meta.typ, Detail |-> meta.details, Status |-> meta.status, Err |-> err]

newError(pt, err) ==
  IF pt \in DOMAIN errorMap
    THEN ErrorOf(errorMap[pt], err)
    ELSE ErrorOf(errorServerInternalMetadata, err)

NewError(pt, msg) == newError(pt, <<msg>>)

NewErrorISE(msg) == NewError(ErrorServerInternalType, msg)

\* a value of the interface error: nil, an *Error, or an error of another
\* package with its chain of messages
NilInterface == [dynamic |-> "nil", e |-> NilError, msgs |-> <<>>]

MgmtError(e) == [dynamic |-> "*Error", e |-> e, msgs |-> <<>>]

OtherError(msgs) == [dynamic |-> "other", e |-> NilError, msgs |-> msgs]

\* the *Error case of WrapError
WrapMgmtError(e, msg) ==
  IF e.Err = <<>>
    THEN [e EXCEPT !.Err = <<msg \o "; " \o e.Detail>>]
    ELSE [e EXCEPT !.Err = <<msg>> \o e.Err]

WrapError(typ, err, msg) ==
  CASE err.dynamic = "nil" -> NilError
    [] err.dynamic = "*Error" -> WrapMgmtError(err.e, msg)
    [] OTHER -> newError(typ, <<msg>> \o err.msgs)

WrapErrorISE(err, msg) == WrapError(ErrorServerInternalType, err, msg)

\* (*Error).StatusCode
StatusCode(e) == e.Status

\* how often an error is wrapped
MaxWraps == 2

\* sample arguments: the four constants and two values that are not in errorMap
ProblemTypes == DefinedTypes \cup {-1, 4}

Messages == {"provisioner p not found", "error loading provisioner"}

\* the errors handed to WrapError: the *Error built last (nil at first) and
\* errors of other packages
Wrappable(e) ==
  {IF e = NilError THEN NilInterface ELSE MgmtError(e),
   OtherError(<<"unexpected end of JSON input">>),
   OtherError(<<"database closed">>)}

ErrCall(op, typ, e) ==
  /\ errCall' = [op |-> op, typ |-> typ]
  /\ mgmtErr' = e
  /\ UNCHANGED <<engineVars, normVars, evalVars, dbVars>>

CallNewError ==
  \E pt \in ProblemTypes, msg \in Messages : ErrCall("NewError", pt, NewError(pt, msg))

CallNewErrorISE ==
  \E msg \in Messages : ErrCall("NewErrorISE", ErrorServerInternalType, NewErrorISE(msg))

CallWrapError ==
  \E typ \in ProblemTypes, msg \in Messages, err \in Wrappable(mgmtErr) :
    /\ Len(err.e.Err) <= MaxWraps
    /\ ErrCall("WrapError", typ, WrapError(typ, err, msg))

CallWrapErrorISE ==
  \E msg \in Messages, err \in Wrappable(mgmtErr) :
    /\ Len(err.e.Err) <= MaxWraps
    /\ ErrCall("WrapErrorISE", ErrorServerInternalType, WrapErrorISE(err, msg))

NextErr == CallNewError \/ CallNewErrorISE \/ CallWrapError \/ CallWrapErrorISE

SpecErr == Init /\ [][NextErr]_vars

\* C14: an error built by NewError for one of the four problem types is of
\* that type and of no other defined type, and an error built for a problem
\* type that is not in the error map is a server-internal error with status 500.
C14_NewErrorHasItsType ==
  errCall.op = "NewError" =>
    IF errCall.typ \in DefinedTypes
      THEN /\ IsType(mgmtErr, errCall.typ)
           /\ \A q \in DefinedTypes \ {errCall.typ} : ~IsType(mgmtErr, q)
      ELSE /\ IsType(mgmtErr, ErrorServerInternalType)
           /\ StatusCode(mgmtErr) = 500

\* ------------------------------------------------------------ package nosql: provisioners

\* the authorities whose DBs share the table, and the ids randID returns
Authorities == {"a1", "a2"}

IDOrder == <<"p1", "p2">>

IDs == {IDOrder[i] : i \in 1..Len(IDOrder)}

\* the readings of the clock: clock.Now() is never the zero time
MaxClock == 5

\* time.Time{}, for which IsZero holds
ZeroTime == 0

StatusActive == "active"

StatusDeleted == "deleted"

\* the provisioners callers hand in: details of a JWK provisioner, no details
\* at all, details of a type unmarshalDetails does not know
ProvisionerInputs ==
  {[Type |-> "JWK", Name |-> "n1", Claims |-> "c1", Details |-> "jwk", Status |-> StatusActive],
   [Type |-> "OIDC", Name |-> "n2", Claims |-> "c2", Details |-> "", Status |-> StatusActive],
   [Type |-> "JWK", Name |-> "n1", Claims |-> "c1", Details |-> "jwk", Status |-> StatusDeleted],
   [Type |-> "OIDC", Name |-> "n2", Claims |-> "c2", Details |-> "saml",
    Status |-> StatusDeleted]}

\* an error that is not an *mgmt.Error
PlainError(msg) == [Type |-> "error", Detail |-> "", Status |-> 0, Err |-> <<msg>>]

NoProvisioner ==
  [ID |-> "", AuthorityID |-> "", Type |-> "", Name |-> "", Claims |-> "", Details |-> "",
   Status |-> ""]

NoDBProvisioner ==
  [ID |-> "", AuthorityID |-> "", Type |-> "", Name |-> "", Claims |-> "", Details |-> "",
   CreatedAt |-> ZeroTime, DeletedAt |-> ZeroTime]

\* getDBProvisionerBytes: the error, nil when the id is in the table
getDBProvisionerBytes(table, id) ==
  IF id \notin DOMAIN table
    THEN NewError(ErrorNotFoundType, "provisioner " \o id \o " not found")
    ELSE NilError

getDBProvisioner(table, authorityID, id) ==
  IF getDBProvisionerBytes(table, id) # NilError
    THEN [err |-> getDBProvisionerBytes(table, id), dbp |-> NoDBProvisioner]
  ELSE IF table[id].AuthorityID # authorityID
    THEN [err |-> NewError(ErrorAuthorityMismatchType,
                           "provisioner " \o id \o " is not owned by authority " \o authorityID),
          dbp |-> NoDBProvisioner]
  ELSE [err |-> NilError, dbp |-> table[id]]

\* what json.Unmarshal(dbp.Details, dt) and unmarshalDetails return for the
\* details of a record
DetailsError(details, id) ==
  IF details = ""
    THEN WrapErrorISE(OtherError(<<"unexpected end of JSON input">>),
                      "error unmarshaling details to detailsType for provisioner " \o id)
  ELSE IF details = "saml" THEN PlainError("unsupported provisioner type saml")
  ELSE NilError

unmarshalProvisioner(dbp, id) ==
  IF DetailsError(dbp.Details, id) # NilError
    THEN [err |-> DetailsError(dbp.Details, id), prov |-> NoProvisioner]
    ELSE [err |-> NilError,
          prov |-> [ID |-> dbp.ID, AuthorityID |-> dbp.AuthorityID, Type |-> dbp.Type,
                    Name |-> dbp.Name, Claims |-> dbp.Claims, Details |-> dbp.Details,
                    Status |-> IF dbp.DeletedAt # ZeroTime
                                 THEN StatusDeleted ELSE StatusActive]]

\* the rest of GetProvisioner, on the unmarshalled record
GetUnmarshalled(u, authorityID, id) ==
  IF u.err # NilError THEN [err |-> u.err, provs |-> <<>>]
  ELSE IF u.prov.Status = StatusDeleted
    THEN [err |-> NewError(ErrorDeletedType, "provisioner " \o id \o " is deleted"),
          provs |-> <<>>]
  ELSE IF u.prov.AuthorityID # authorityID
    THEN [err |-> NewError(ErrorAuthorityMismatchType,
                           "provisioner " \o id \o " is not owned by authority " \o authorityID),
          provs |-> <<>>]
  ELSE [err |-> NilError, provs |-> <<u.prov>>]

GetProvisioner(table, authorityID, id) ==
  IF getDBProvisionerBytes(table, id) # NilError
    THEN [err |-> getDBProvisionerBytes(table, id), provs |-> <<>>]
    ELSE GetUnmarshalled(unmarshalProvisioner(table[id], id), authorityID, id)

\* db.List: the keys of the table in order
List(table) == SelectSeq(IDOrder, LAMBDA id : id \in DOMAIN table)

\* an entry is skipped when it is not deleted only
AppendedIfActive(prov, authorityID) == prov.Status # StatusDeleted

\* the entries GetProvisioners does not skip
Appended(prov, authorityID) ==
  prov.Status # StatusDeleted /\ prov.AuthorityID = authorityID

\* the loop of GetProvisioners over the entries
RECURSIVE GetProvisionersLoop(_, _, _, _)
GetProvisionersLoop(table, authorityID, keys, provs) ==
  IF keys = <<>> THEN [err |-> NilError, provs |-> provs]
  ELSE IF unmarshalProvisioner(table[Head(keys)], Head(keys)).err # NilError
    THEN [err |-> unmarshalProvisioner(table[Head(keys)], Head(keys)).err, provs |-> <<>>]
  ELSE IF Appended(unmarshalProvisioner(table[Head(keys)], Head(keys)).prov, authorityID)
    THEN GetProvisionersLoop(table, authorityID, Tail(keys),
           Append(provs, unmarshalProvisioner(table[Head(keys)], Head(keys)).prov))
  ELSE GetProvisionersLoop(table, authorityID, Tail(keys), provs)

GetProvisioners(table, authorityID) ==
  GetProvisionersLoop(table, authorityID, List(table), <<>>)

\* db.save: the record is written when the table still holds what was read
save(table, id, nu, old) ==
  IF (IF id \in DOMAIN table THEN table[id] ELSE NoDBProvisioner) = old
    THEN [err |-> NilError, table |-> [k \in DOMAIN table \cup {id} |->
                                         IF k = id THEN nu ELSE table[k]]]
    ELSE [err |-> PlainError("error saving provisioner; changed since last read"),
          table |-> table]

\* a call on the DB of an authority and what it returned
DBCall(op, authorityID, id, status, err, provs) ==
  dbCall' = [op |-> op, authorityID |-> authorityID, id |-> id, status |-> status,
             err |-> err, provs |-> provs]

\* the record CreateProvisioner saves
NewDBProvisioner(prov, id, authorityID, now) ==
  [ID |-> id, AuthorityID |-> authorityID, Type |-> prov.Type, Name |-> prov.Name,
   Claims |-> prov.Claims, Details |-> prov.Details, CreatedAt |-> now,
   DeletedAt |-> ZeroTime]

Saved(op, authorityID, id, status, saved) ==
  /\ store' = saved.table
  /\ DBCall(op, authorityID, id, status, saved.err, <<>>)

CreateProvisioner ==
  \E authorityID \in Authorities, prov \in ProvisionerInputs, id \in IDs :
    /\ clock < MaxClock
    /\ clock' = clock + 1
    /\ Saved("CreateProvisioner", authorityID, id, prov.Status,
             save(store, id, NewDBProvisioner(prov, id, authorityID, clock), NoDBProvisioner))
    /\ UNCHANGED <<engineVars, normVars, evalVars, errVars>>

\* the record UpdateProvisioner saves over old
Updated(old, prov, now) ==
  [old EXCEPT !.DeletedAt = IF old.DeletedAt = ZeroTime /\ prov.Status = StatusDeleted
                              THEN now ELSE old.DeletedAt,
              !.Claims = prov.Claims,
              !.Details = prov.Details]

UpdateProvisioner ==
  \E authorityID \in Authorities, prov \in ProvisionerInputs, id \in IDs :
    /\ IF getDBProvisioner(store, authorityID, id).err # NilError
         THEN /\ DBCall("UpdateProvisioner", authorityID, id, prov.Status,
                        getDBProvisioner(store, authorityID, id).err, <<>>)
              /\ UNCHANGED <<store, clock>>
         ELSE /\ store[id].DeletedAt = ZeroTime /\ prov.Status = StatusDeleted
                   => clock < MaxClock
              /\ clock' = IF store[id].DeletedAt = ZeroTime /\ prov.Status = StatusDeleted
                            THEN clock + 1 ELSE clock
              /\ Saved("UpdateProvisioner", authorityID, id, prov.Status,
                       save(store, id, Updated(store[id], prov, clock), store[id]))
    /\ UNCHANGED <<engineVars, normVars, evalVars, errVars>>

CallGetProvisioner ==
  \E authorityID \in Authorities, id \in IDs :
    /\ DBCall("GetProvisioner", authorityID, id, "",
              GetProvisioner(store, authorityID, id).err,
              GetProvisioner(store, authorityID, id).provs)
    /\ UNCHANGED <<store, clock, engineVars, normVars, evalVars, errVars>>

CallGetProvisioners ==
  \E authorityID \in Authorities :
    /\ DBCall("GetProvisioners", authorityID, "", "",
              GetProvisioners(store, authorityID).err,
              GetProvisioners(store, authorityID).provs)
    /\ UNCHANGED <<store, clock, engineVars, normVars, evalVars, errVars>>

NextDB == CreateProvisioner \/ UpdateProvisioner \/ CallGetProvisioner \/ CallGetProvisioners

SpecDB == Init /\ [][NextDB]_vars

\* the ids of the records that are not deleted and belong to an authority
ActiveOf(authorityID) ==
  {id \in DOMAIN store :
     store[id].DeletedAt = ZeroTime /\ store[id].AuthorityID = authorityID}

\* the ids of the provisioners the last call returned
Returned == {dbCall.provs[i].ID : i \in 1..Len(dbCall.provs)}

Unmarshals(details) == details \notin {"", "saml"}

C16_SoftDeleteIsPermanent ==
  [][/\ \A id \in DOMAIN store :
          /\ id \in DOMAIN store'
          /\ \A f \in {"ID", "AuthorityID", "Type", "Name", "CreatedAt"} :
               store'[id][f] = store[id][f]
          /\ store[id].DeletedAt # ZeroTime => store'[id].DeletedAt = store[id].DeletedAt
          /\ store'[id].DeletedAt # store[id].DeletedAt
               => /\ dbCall'.op = "UpdateProvisioner"
                  /\ dbCall'.id = id
                  /\ dbCall'.status = StatusDeleted
                  /\ store[id].DeletedAt = ZeroTime
     /\ (/\ dbCall'.op = "GetProvisioner"
         /\ dbCall'.id \in DOMAIN store
         /\ store[dbCall'.id].DeletedAt # ZeroTime)
          => /\ IsType(dbCall'.err, ErrorDeletedType)
             /\ dbCall'.provs = <<>>]_vars

\* C17: GetProvisioner returns a provisioner only for a record that exists, is
\* not deleted and belongs to the calling authority; otherwise it returns no
\* provisioner and an error: not-found for an absent id, deleted for a deleted
\* record whoever owns it, authority-mismatch for an active record of another
\* authority.
C17_GetProvisionerErrorKinds ==
  dbCall.op = "GetProvisioner" =>
    /\ dbCall.provs # <<>>
         => /\ dbCall.id \in ActiveOf(dbCall.authorityID)
            /\ dbCall.err = NilError
    /\ dbCall.id \notin ActiveOf(dbCall.authorityID)
         => /\ dbCall.provs = <<>>
            /\ IsType(dbCall.err,
                      IF dbCall.id \notin DOMAIN store THEN ErrorNotFoundType
                      ELSE IF store[dbCall.id].DeletedAt # ZeroTime THEN ErrorDeletedType
                      ELSE ErrorAuthorityMismatchType)

\* ------------------------------------------------------------ what an option leaves alone

FlagOptions == {"WithSubjectCommonNameVerification", "WithAllowLiteralWildcardNames"}

\* the one field of the engine an option may assign
OwnField(op) ==
  CASE op = "WithSubjectCommonNameVerification" -> "verifySubjectCommonName"
    [] op = "WithAllowLiteralWildcardNames" -> "allowLiteralWildcardNames"
    [] OTHER -> TargetField(op)

====
